---- MODULE Spec2Model ----
(***************************************************************************)
(* Channel credentials of the Node extension (channel_credentials.cc) and  *)
(* the core SSL credentials (ssl_credentials.c): construction, wrapping,   *)
(* composition, reference-counted release, the peer verification callback  *)
(* bridge and the SSL security-connector hook.                             *)
(***************************************************************************)
EXTENDS Integers, Sequences, FiniteSets, TLC

\* ------------------------------------------------------------------ bounds
MaxCreds == 3
MaxWrappers == 3
MaxMd == 1
MaxConn == 1

CredIds == 1..MaxCreds
WrapperIds == 1..MaxWrappers
MdIds == 1..MaxMd
ConnIds == 1..MaxConn
MaxServers == 1
MaxPairs == 2
ServerIds == 1..MaxServers
\* The caller's three Buffers: root certificates, private key, cert chain.
BufferIds == 1..3

\* ------------------------------------------------------------ C-level values
\* A null object pointer (credentials, callback_md, connector).
NULL == 0
\* A char*: <<>> is the null pointer, <<m>> points at the bytes m in memory.
NullStr == <<>>
Ptr(m) == <<m>>
\* A null function pointer of verify_peer_options.
NullFn == "NULL"

RECURSIVE CString(_)
\* The C string a pointer's memory holds: the bytes before the first NUL.
CString(m) ==
  IF m = <<>> \/ Head(m) = 0 THEN <<>> ELSE <<Head(m)>> \o CString(Tail(m))

gpr_strdup(p) == IF p = NullStr THEN NullStr ELSE Ptr(CString(p[1]) \o <<0>>)

\* -------------------------------------------------------------- JS values
JsUndefined == [t |-> "undefined"]
JsNull == [t |-> "null"]
JsString(s) == [t |-> "string", s |-> s]
\* A string with a NUL character in it: s is the text before the first NUL,
\* which is all a C-string read of it (strcmp on its Utf8String) gets to see.
JsStringNul(s, after) == [t |-> "string", s |-> s, after |-> after]
JsNumber == [t |-> "number"]
JsBoolean(b) == [t |-> "boolean", b |-> b]
JsFunction(f) == [t |-> "function", f |-> f]
\* A node Buffer: its bytes, and the bytes that follow it in memory up to the
\* first NUL (what a C-string read of Buffer::Data runs into).
JsBuffer(d, after) == [t |-> "buffer", data |-> d, after |-> after]
\* A plain object: its own property names in enumeration order, with values.
JsObject(props) == [t |-> "object", props |-> props]

BufferHasInstance(v) == v.t = "buffer"
\* Buffer::Data: a pointer into the Buffer's own memory (for a Buffer of the
\* caller's memory the pointer also carries which buffer it points into).
BufferData(v) ==
  IF "at" \in DOMAIN v THEN <<v.data \o v.after, v.at>> ELSE Ptr(v.data \o v.after)
IsNullOrUndefined(v) == v.t \in {"null", "undefined"}
IsObject(v) == v.t \in {"object", "buffer", "function"}
IsFunction(v) == v.t = "function"
IsBoolean(v) == v.t = "boolean"
IsString(v) == v.t = "string"
OwnProps(v) == IF v.t = "object" THEN v.props ELSE <<>>

\* ------------------------------------------------------------------- state
VARIABLES
  creds,      \* native grpc_channel_credentials, by address
  destructs,  \* per credential: how often its vtable destruct hook has run
  pending,    \* credentials whose refcount reached zero, destruct not yet run
  wrappers,   \* ChannelCredentials JS objects
  mds,        \* callback_md holders (the peer verification bridges)
  callcred,   \* the native call credential and its CallCredentials wrapper
  conns,      \* security connectors made by the transport
  dropped,    \* native credentials a binding call created and handed to no wrapper
  hook,       \* the last call of the connector-creation hook: inputs and outputs
  faults,     \* memory faults observed: accesses to freed or unowned memory
  last,       \* the last binding call: its arguments and what it returned
  buffers,    \* the memory of the caller's Buffers (root, key, cert)
  server_creds \* native SSL server credentials, by address, with the call that made them

vars == <<creds, destructs, pending, wrappers, mds, callcred, conns, dropped, hook, faults, last,
          buffers, server_creds>>

NoCred == [kind |-> "none"]
FreedCred(was) == [kind |-> "freed", was |-> was]
NoWrapper == [state |-> "none"]
NoMd == [state |-> "none", teardowns |-> 0]
NoConn == [state |-> "none"]
NoCall == [op |-> "none"]
NoServer == [kind |-> "none"]
NoInvoke == <<>>
\* What the callback does when called: it throws, or returns a value.
Threw == [threw |-> TRUE, value |-> JsUndefined]
Returns(value) == [threw |-> FALSE, value |-> value]
NoOutcome == [threw |-> FALSE, value |-> [t |-> "none"]]

Live(c) == c # NULL /\ creds[c].kind \in {"ssl", "composite"}

FreeOf(S, used) == IF \E i \in S : ~used[i] THEN CHOOSE i \in S : ~used[i] /\ \A j \in S : j < i => used[j] ELSE NULL
FreeCred == FreeOf(CredIds, [c \in CredIds |-> creds[c].kind # "none"])
FreeWrapper == FreeOf(WrapperIds, [w \in WrapperIds |-> wrappers[w].state # "none"])
FreeMd == FreeOf(MdIds \cup {MaxMd + 1},
                 [m \in MdIds \cup {MaxMd + 1} |-> m \in MdIds /\ mds[m].state # "none"])
FreeConn == FreeOf(ConnIds, [k \in ConnIds |-> conns[k].state # "none"])

\* ------------------------------------------------- core: SSL credentials
\* verify_peer_options as CreateSsl initialises it, and as gpr_zalloc leaves it.
ZeroVerifyOptions ==
  [verify_peer_callback |-> NullFn, verify_peer_callback_userdata |-> NULL,
   verify_peer_destruct |-> NullFn, skip_hostname_verification |-> FALSE]

\* grpc_ssl_config inside a zero-allocated grpc_ssl_credentials.
ZeroConfig ==
  [pem_root_certs |-> NullStr, pem_key_cert_pair |-> <<>>,
   verify_options |-> ZeroVerifyOptions]

\* The two GPR_ASSERTs of ssl_build_config: TRUE when one of them aborts.
BuildConfigAborts(pem_key_cert_pair) ==
  /\ pem_key_cert_pair # <<>>
  /\ \/ pem_key_cert_pair[1].private_key = NullStr
     \/ pem_key_cert_pair[1].cert_chain = NullStr

\* Mutant: the config keeps the caller's pointers.
ssl_build_config_aliased(pem_root_certs, pem_key_cert_pair, verify_options, config) ==
  LET c1 == IF pem_root_certs # NullStr
            THEN [config EXCEPT !.pem_root_certs = pem_root_certs]
            ELSE config
      c2 == IF pem_key_cert_pair # <<>>
            THEN [c1 EXCEPT !.pem_key_cert_pair =
                    Ptr([cert_chain |-> pem_key_cert_pair[1].cert_chain,
                         private_key |-> pem_key_cert_pair[1].private_key])]
            ELSE c1
  IN IF verify_options # <<>>
     THEN [c2 EXCEPT !.verify_options = verify_options[1]]
     ELSE c2

ssl_build_config(pem_root_certs, pem_key_cert_pair, verify_options, config) ==
  LET c1 == IF pem_root_certs # NullStr
            THEN [config EXCEPT !.pem_root_certs = gpr_strdup(pem_root_certs)]
            ELSE config
      c2 == IF pem_key_cert_pair # <<>>
            THEN [c1 EXCEPT !.pem_key_cert_pair =
                    Ptr([cert_chain |-> gpr_strdup(pem_key_cert_pair[1].cert_chain),
                         private_key |-> gpr_strdup(pem_key_cert_pair[1].private_key)])]
            ELSE c1
  IN IF verify_options # <<>>
     THEN [c2 EXCEPT !.verify_options = verify_options[1]]
     ELSE c2

\* The credential grpc_ssl_credentials_create returns (never NULL), or the
\* abort of a failed GPR_ASSERT.
grpc_ssl_credentials_create(pem_root_certs, pem_key_cert_pair, verify_options) ==
  IF BuildConfigAborts(pem_key_cert_pair)
  THEN [kind |-> "abort"]
  ELSE [kind |-> "ssl", refcount |-> 1,
        config |-> ssl_build_config(pem_root_certs, pem_key_cert_pair,
                                    verify_options, ZeroConfig)]

\* -------------------------------------------- core: SSL server credentials
GRPC_SSL_DONT_REQUEST_CLIENT_CERTIFICATE == "GRPC_SSL_DONT_REQUEST_CLIENT_CERTIFICATE"
GRPC_SSL_REQUEST_AND_REQUIRE_CLIENT_CERTIFICATE_AND_VERIFY ==
  "GRPC_SSL_REQUEST_AND_REQUIRE_CLIENT_CERTIFICATE_AND_VERIFY"

\* grpc_ssl_server_config inside a zero-allocated grpc_ssl_server_credentials.
ZeroServerConfig ==
  [pem_key_cert_pairs |-> <<>>, num_key_cert_pairs |-> 0, pem_root_certs |-> NullStr,
   client_certificate_request |-> GRPC_SSL_DONT_REQUEST_CLIENT_CERTIFICATE]

\* Mutant: the pairs are converted without the GPR_ASSERTs on their members.
grpc_convert_grpc_to_tsi_cert_pairs_unchecked(pem_key_cert_pairs, num_key_cert_pairs) ==
  IF num_key_cert_pairs > 0 /\ pem_key_cert_pairs = <<>>
  THEN [abort |-> TRUE, tsi_pairs |-> <<>>]
  ELSE [abort |-> FALSE,
        tsi_pairs |->
          IF num_key_cert_pairs > 0
          THEN Ptr([i \in 1..num_key_cert_pairs |->
                     [cert_chain |-> gpr_strdup(pem_key_cert_pairs[1][i].cert_chain),
                      private_key |-> gpr_strdup(pem_key_cert_pairs[1][i].private_key)]])
          ELSE <<>>]

\* grpc_convert_grpc_to_tsi_cert_pairs: the array of copies (NULL for no
\* pairs), or the abort of a failed GPR_ASSERT.
grpc_convert_grpc_to_tsi_cert_pairs(pem_key_cert_pairs, num_key_cert_pairs) ==
  IF num_key_cert_pairs > 0 /\ pem_key_cert_pairs = <<>>
  THEN [abort |-> TRUE, tsi_pairs |-> <<>>]
  ELSE IF \E i \in 1..num_key_cert_pairs :
            \/ pem_key_cert_pairs[1][i].private_key = NullStr
            \/ pem_key_cert_pairs[1][i].cert_chain = NullStr
  THEN [abort |-> TRUE, tsi_pairs |-> <<>>]
  ELSE [abort |-> FALSE,
        tsi_pairs |->
          IF num_key_cert_pairs > 0
          THEN Ptr([i \in 1..num_key_cert_pairs |->
                     [cert_chain |-> gpr_strdup(pem_key_cert_pairs[1][i].cert_chain),
                      private_key |-> gpr_strdup(pem_key_cert_pairs[1][i].private_key)]])
          ELSE <<>>]

\* ssl_build_server_config: the config filled in (abort: a GPR_ASSERT of the
\* conversion failed).
ssl_build_server_config(pem_root_certs, pem_key_cert_pairs, num_key_cert_pairs, client_certificate_request, config) ==
  LET c1 == [config EXCEPT !.client_certificate_request = client_certificate_request]
      c2 == IF pem_root_certs # NullStr
            THEN [c1 EXCEPT !.pem_root_certs = gpr_strdup(pem_root_certs)]
            ELSE c1
      conv == grpc_convert_grpc_to_tsi_cert_pairs(pem_key_cert_pairs, num_key_cert_pairs)
  IN [abort |-> conv.abort,
      config |-> [c2 EXCEPT !.pem_key_cert_pairs = conv.tsi_pairs,
                            !.num_key_cert_pairs = num_key_cert_pairs]]

\* grpc_ssl_server_credentials_create_ex: the credential returned, or the
\* abort of a failed GPR_ASSERT.
grpc_ssl_server_credentials_create_ex(pem_root_certs, pem_key_cert_pairs, num_key_cert_pairs, client_certificate_request) ==
  LET b == ssl_build_server_config(pem_root_certs, pem_key_cert_pairs, num_key_cert_pairs,
                                   client_certificate_request, ZeroServerConfig)
  IN IF b.abort THEN [kind |-> "abort"]
     ELSE [kind |-> "ssl_server", refcount |-> 1, config |-> b.config]

grpc_ssl_server_credentials_create(pem_root_certs, pem_key_cert_pairs, num_key_cert_pairs, force_client_auth) ==
  grpc_ssl_server_credentials_create_ex(
    pem_root_certs, pem_key_cert_pairs, num_key_cert_pairs,
    IF force_client_auth # 0
    THEN GRPC_SSL_REQUEST_AND_REQUIRE_CLIENT_CERTIFICATE_AND_VERIFY
    ELSE GRPC_SSL_DONT_REQUEST_CLIENT_CERTIFICATE)

\* ssl_server_destruct: the pairs and the root certificates are freed.
ssl_server_destruct(c) == [kind |-> "freed", call |-> c.call]

\* ------------------------------------------- binding: ChannelCredentials
ErrRoot == "createSsl's first argument must be a Buffer"
ErrKey == "createSSl's second argument must be a Buffer if provided"
ErrCert == "createSSl's third argument must be a Buffer if provided"
ErrPair == "createSsl's second and third arguments must be provided or omitted together"
ErrCheck == "Value of checkServerIdentity must be a function."
ErrSkip == "Value of insecureSkipHostnameVerify must be a boolean."
ErrThis == "compose can only be called on ChannelCredentials objects"
ErrOther == "compose's first argument must be a CallCredentials object"
ErrInsecure == "Cannot compose insecure credential"

\* *Nan::Utf8String read as a C string, and strcmp on C strings (0: equal).
Utf8String(v) == v.s
strcmp(a, b) == IF a = b THEN 0 ELSE 1

\* The option-bag loop of CreateSsl from property i on: the error thrown (""
\* when the loop ends), the verify_peer_options built so far and the
\* callback_md holders allocated so far (base is the next free address).
RECURSIVE ScanProps(_, _, _, _, _)
ScanProps(props, i, vo, alloc, base) ==
  IF i > Len(props)
  THEN [throw |-> "", vo |-> vo, alloc |-> alloc]
  ELSE
    LET key == props[i].key
        value == props[i].value
    IN IF ~IsString(key) THEN ScanProps(props, i + 1, vo, alloc, base)
       ELSE IF strcmp("checkServerIdentity", Utf8String(key)) = 0
       THEN IF ~IsFunction(value)
            THEN [throw |-> ErrCheck, vo |-> vo, alloc |-> alloc]
            ELSE LET md == base + Len(alloc)
                 IN ScanProps(props, i + 1,
                      [vo EXCEPT !.verify_peer_callback = "verify_peer_callback_wrapper",
                                 !.verify_peer_callback_userdata = md,
                                 !.verify_peer_destruct = "verify_peer_callback_destruct"],
                      Append(alloc, [md |-> md, callback |-> value.f]), base)
       ELSE IF strcmp("insecureSkipHostnameVerify", Utf8String(key)) = 0
       THEN IF ~IsBoolean(value)
            THEN [throw |-> ErrSkip, vo |-> vo, alloc |-> alloc]
            ELSE ScanProps(props, i + 1,
                   [vo EXCEPT !.skip_hostname_verification = value.b], alloc, base)
       ELSE ScanProps(props, i + 1, vo, alloc, base)

\* Mutant: the check catches a missing key only.
PairMismatchKeyOnly(private_key, cert_chain) ==
  private_key = NullStr /\ cert_chain # NullStr

\* The key/cert check of CreateSsl.
PairMismatch(private_key, cert_chain) ==
  (private_key = NullStr) # (cert_chain = NullStr)

\* CreateSsl up to its call of grpc_ssl_credentials_create: the error thrown
\* (or ""), the callback_md holders allocated, and the native credential
\* created (<<>> when the call is not reached).
CreateSslRun(info, base) ==
  LET none == [throw |-> "", alloc |-> <<>>, creds |-> <<>>]
      root_certs == IF BufferHasInstance(info[1]) THEN BufferData(info[1]) ELSE NullStr
      private_key == IF BufferHasInstance(info[2]) THEN BufferData(info[2]) ELSE NullStr
      cert_chain == IF BufferHasInstance(info[3]) THEN BufferData(info[3]) ELSE NullStr
      key_cert_pair == [private_key |-> private_key, cert_chain |-> cert_chain]
  IN IF ~BufferHasInstance(info[1]) /\ ~IsNullOrUndefined(info[1])
     THEN [none EXCEPT !.throw = ErrRoot]
     ELSE IF ~BufferHasInstance(info[2]) /\ ~IsNullOrUndefined(info[2])
     THEN [none EXCEPT !.throw = ErrKey]
     ELSE IF ~BufferHasInstance(info[3]) /\ ~IsNullOrUndefined(info[3])
     THEN [none EXCEPT !.throw = ErrCert]
     ELSE IF PairMismatch(private_key, cert_chain)
     THEN [none EXCEPT !.throw = ErrPair]
     ELSE
       LET scan == IF Len(info) >= 4 /\ IsObject(info[4])
                   THEN ScanProps(OwnProps(info[4]), 1, ZeroVerifyOptions, <<>>, base)
                   ELSE [throw |-> "", vo |-> ZeroVerifyOptions, alloc |-> <<>>]
       IN IF scan.throw # ""
          THEN [throw |-> scan.throw, alloc |-> scan.alloc, creds |-> <<>>]
          ELSE [throw |-> "", alloc |-> scan.alloc,
                creds |-> <<grpc_ssl_credentials_create(
                              root_certs,
                              IF private_key = NullStr THEN <<>> ELSE Ptr(key_cert_pair),
                              Ptr(scan.vo))>>]

\* Mutant: the wrapper constructed holds no native credential.
NewWrapperInsecure(credentials) == [state |-> "live", wrapped_credentials |-> NULL]

\* The ChannelCredentials object New constructs around a native credential.
NewWrapper(credentials) == [state |-> "live", wrapped_credentials |-> credentials]

\* WrapStruct: the new wrapper object, or Null when NewInstance comes back
\* empty (instance: whether NewInstance produced an object).
WrapStruct(credentials, instance) ==
  IF instance
  THEN [ret |-> "object", wrapper |-> <<NewWrapper(credentials)>>]
  ELSE [ret |-> "null", wrapper |-> <<>>]

\* ----------------------------------------------- reference-counted heap
\* The part of the state the reference-counting routines read and write.
Heap ==
  [creds |-> creds, destructs |-> destructs, pending |-> pending, mds |-> mds,
   callcred |-> callcred, faults |-> faults]

Fault(H, f) == [H EXCEPT !.faults = @ \cup {f}]

Referable(H, c) == H.creds[c].kind \in {"ssl", "composite"} /\ H.creds[c].refcount > 0

\* grpc_channel_credentials_ref: one more holder.
grpc_channel_credentials_ref(H, c) ==
  IF c = NULL THEN H
  ELSE IF ~Referable(H, c) THEN Fault(H, "ref of a dead credential")
  ELSE [H EXCEPT !.creds[c].refcount = @ + 1]

\* grpc_channel_credentials_unref: the atomic decrement; the holder that brings
\* the count to zero goes on to run the destruct hook (see Destruct).
grpc_channel_credentials_unref(H, c) ==
  IF c = NULL THEN H
  ELSE IF ~Referable(H, c) THEN Fault(H, "unref of a dead credential")
  ELSE [H EXCEPT !.creds[c].refcount = @ - 1,
                 !.pending = IF H.creds[c].refcount = 1 THEN @ \cup {c} ELSE @]

grpc_channel_credentials_release(H, c) == grpc_channel_credentials_unref(H, c)

grpc_call_credentials_ref(H) ==
  IF H.callcred.refcount <= 0 THEN Fault(H, "ref of a dead call credential")
  ELSE [H EXCEPT !.callcred.refcount = @ + 1]

grpc_call_credentials_unref(H) ==
  IF H.callcred.refcount <= 0 THEN Fault(H, "unref of a dead call credential")
  ELSE [H EXCEPT !.callcred.refcount = @ - 1]

\* grpc_composite_channel_credentials_create: a new composite that shares both
\* of its children.
grpc_composite_channel_credentials_create(H, c, channel_creds) ==
  LET H1 == grpc_call_credentials_ref(grpc_channel_credentials_ref(H, channel_creds))
  IN [H1 EXCEPT !.creds[c] = [kind |-> "composite", refcount |-> 1,
                              inner_creds |-> channel_creds, call_creds |-> 1]]

\* The composite's destruct hook: it lets go of both children.
composite_channel_credentials_destruct(H, c) ==
  grpc_call_credentials_unref(grpc_channel_credentials_unref(H, H.creds[c].inner_creds))

\* verify_peer_callback_destruct: deletes the callback and its holder.
verify_peer_callback_destruct(H, userdata) ==
  IF userdata = NULL THEN Fault(H, "teardown of a null callback_md")
  ELSE IF H.mds[userdata].state # "live"
  THEN Fault([H EXCEPT !.mds[userdata].teardowns = IF @ < 2 THEN @ + 1 ELSE @],
             "teardown of a deleted callback_md")
  ELSE [H EXCEPT !.mds[userdata] = [state |-> "deleted", teardowns |-> @.teardowns + 1]]

\* ssl_destruct: frees the config buffers and tears the bridge down.
ssl_destruct(H, c) ==
  LET vo == H.creds[c].config.verify_options
      H1 == [H EXCEPT !.creds[c].config.pem_root_certs = NullStr,
                      !.creds[c].config.pem_key_cert_pair = <<>>]
  IN IF vo.verify_peer_destruct # NullFn
     THEN verify_peer_callback_destruct(H1, vo.verify_peer_callback_userdata)
     ELSE H1

\* The vtable's destruct entry of a credential.
VtableDestruct(H, c) ==
  IF H.creds[c].kind = "ssl" THEN ssl_destruct(H, c)
  ELSE composite_channel_credentials_destruct(H, c)

\* What follows the decrement that reached zero: the destruct hook, then
\* gpr_free of the credential.
DestructAndFree(H, c) ==
  LET H1 == VtableDestruct(H, c)
  IN [H1 EXCEPT !.creds[c] = FreedCred(H.creds[c].kind),
                !.destructs[c] = IF @ < 2 THEN @ + 1 ELSE @,
                !.pending = @ \ {c}]

\* Mutant: the destructor forgets the release.
DestructorNoRelease(H, wrapper) == H

\* Mutant: the destructor releases twice.
DestructorTwice(H, wrapper) ==
  grpc_channel_credentials_release(
    grpc_channel_credentials_release(H, wrapper.wrapped_credentials),
    wrapper.wrapped_credentials)

\* Mutant: the destructor destroys the native credential whoever else holds it.
DestructorDestroys(H, wrapper) ==
  IF wrapper.wrapped_credentials # NULL
     /\ H.creds[wrapper.wrapped_credentials].kind \in {"ssl", "composite"}
  THEN DestructAndFree(H, wrapper.wrapped_credentials)
  ELSE H

\* ChannelCredentials::~ChannelCredentials
Destructor(H, wrapper) ==
  grpc_channel_credentials_release(H, wrapper.wrapped_credentials)

SetHeap(H) ==
  /\ creds' = H.creds
  /\ destructs' = H.destructs
  /\ pending' = H.pending
  /\ mds' = H.mds
  /\ callcred' = H.callcred
  /\ faults' = H.faults

\* ------------------------------------------------------- binding calls
JsChannelCredentials(w) == [t |-> "ChannelCredentials", w |-> w]
JsCallCredentials == [t |-> "CallCredentials"]
ChannelCredentialsHasInstance(v) == v.t = "ChannelCredentials"
CallCredentialsHasInstance(v) == v.t = "CallCredentials"

\* The record of a binding call: its arguments, what it returned ("object",
\* "null" or "throw"), the error thrown, and what it allocated.
Returned(op, args, ret, throw, w, c, alloc) ==
  [op |-> op, tick |-> ~last.tick, args |-> args, ret |-> ret, throw |-> throw,
   wrapper |-> w, creds |-> c, alloc |-> alloc]

AllocMds(H, alloc) ==
  [H EXCEPT !.mds = [m \in MdIds |->
     IF \E i \in 1..Len(alloc) : alloc[i].md = m
     THEN [state |-> "live", teardowns |-> 0,
           callback |-> (CHOOSE a \in {alloc[i] : i \in 1..Len(alloc)} : a.md = m).callback]
     ELSE @[m]]]

AllocIds(alloc) == {alloc[i].md : i \in 1..Len(alloc)}

\* ChannelCredentials.createSsl(info[0], info[1], info[2], info[3])
CreateSsl(info, instance) ==
  /\ FreeCred # NULL /\ FreeWrapper # NULL
  /\ LET r == CreateSslRun(info, FreeMd)
         H1 == AllocMds(Heap, r.alloc)
         c == FreeCred
         w == FreeWrapper
     IN /\ \A i \in 1..Len(r.alloc) : r.alloc[i].md \in MdIds
        /\ IF r.throw # ""
           THEN /\ SetHeap(H1)
                /\ last' = Returned("createSsl", info, "throw", r.throw, NULL, NULL,
                                    AllocIds(r.alloc))
                /\ UNCHANGED <<wrappers, conns, dropped, hook>>
           ELSE IF r.creds[1].kind = "abort"
           THEN /\ SetHeap(Fault(H1, "GPR_ASSERT failed"))
                /\ last' = Returned("createSsl", info, "abort", "", NULL, NULL,
                                    AllocIds(r.alloc))
                /\ UNCHANGED <<wrappers, conns, dropped, hook>>
           ELSE LET wr == WrapStruct(c, instance)
                IN /\ SetHeap([H1 EXCEPT !.creds[c] = r.creds[1]])
                   /\ wrappers' = IF wr.wrapper # <<>>
                                  THEN [wrappers EXCEPT ![w] = wr.wrapper[1]]
                                  ELSE wrappers
                   /\ last' = Returned("createSsl", info, wr.ret, "",
                                       IF wr.wrapper # <<>> THEN w ELSE NULL, c,
                                       AllocIds(r.alloc))
                   /\ dropped' = IF wr.wrapper # <<>> THEN dropped ELSE dropped \cup {c}
                   /\ UNCHANGED <<conns, hook>>
  /\ UNCHANGED <<buffers, server_creds>>

\* ChannelCredentials.createInsecure()
CreateInsecure(instance) ==
  /\ FreeWrapper # NULL
  /\ LET wr == WrapStruct(NULL, instance)
         w == FreeWrapper
     IN /\ wrappers' = IF wr.wrapper # <<>>
                       THEN [wrappers EXCEPT ![w] = wr.wrapper[1]]
                       ELSE wrappers
        /\ last' = Returned("createInsecure", <<>>, wr.ret, "",
                            IF wr.wrapper # <<>> THEN w ELSE NULL, NULL, {})
        /\ UNCHANGED <<creds, destructs, pending, mds, callcred, faults, conns, dropped, hook>>
  /\ UNCHANGED <<buffers, server_creds>>

\* Mutant: the test is missing.
IsInsecureNever(self) == FALSE

\* Compose's test for an insecure credential.
IsInsecure(self) == self.wrapped_credentials = NULL

\* Mutant: the base credential is moved into the composite, not shared.
ComposeNativeMoved(H, c, self) ==
  grpc_channel_credentials_unref(
    grpc_composite_channel_credentials_create(H, c, self.wrapped_credentials),
    self.wrapped_credentials)

\* The native part of Compose once both operands have passed the type checks.
ComposeNative(H, c, self) ==
  grpc_composite_channel_credentials_create(H, c, self.wrapped_credentials)

\* channelCredentials.compose(callCredentials): this, info[0]
Compose(this, arg0, instance) ==
  /\ FreeCred # NULL /\ FreeWrapper # NULL
  /\ LET args == <<this, arg0>>
         c == FreeCred
         w == FreeWrapper
     IN IF ~ChannelCredentialsHasInstance(this)
        THEN /\ last' = Returned("compose", args, "throw", ErrThis, NULL, NULL, {})
             /\ UNCHANGED <<creds, destructs, pending, mds, callcred, faults,
                            wrappers, conns, dropped, hook>>
        ELSE IF ~CallCredentialsHasInstance(arg0)
        THEN /\ last' = Returned("compose", args, "throw", ErrOther, NULL, NULL, {})
             /\ UNCHANGED <<creds, destructs, pending, mds, callcred, faults,
                            wrappers, conns, dropped, hook>>
        ELSE IF IsInsecure(wrappers[this.w])
        THEN /\ last' = Returned("compose", args, "throw", ErrInsecure, NULL, NULL, {})
             /\ UNCHANGED <<creds, destructs, pending, mds, callcred, faults,
                            wrappers, conns, dropped, hook>>
        ELSE LET wr == WrapStruct(c, instance)
             IN /\ SetHeap(ComposeNative(Heap, c, wrappers[this.w]))
                /\ wrappers' = IF wr.wrapper # <<>>
                               THEN [wrappers EXCEPT ![w] = wr.wrapper[1]]
                               ELSE wrappers
                /\ last' = Returned("compose", args, wr.ret, "",
                                    IF wr.wrapper # <<>> THEN w ELSE NULL, c, {})
                /\ dropped' = IF wr.wrapper # <<>> THEN dropped ELSE dropped \cup {c}
                /\ UNCHANGED <<conns, hook>>
  /\ UNCHANGED <<buffers, server_creds>>

\* The garbage collector finalises a ChannelCredentials object nothing refers
\* to any more: its destructor runs.
Collect(w) ==
  /\ wrappers[w].state = "live"
  /\ SetHeap(Destructor(Heap, wrappers[w]))
  /\ wrappers' = [wrappers EXCEPT ![w] = [state |-> "dead"]]
  /\ UNCHANGED <<conns, dropped, hook, last>>
  /\ UNCHANGED <<buffers, server_creds>>

\* The CallCredentials object is finalised: it releases the call credential.
CollectCallCredentials ==
  /\ callcred.wrapper
  /\ SetHeap([grpc_call_credentials_unref(Heap) EXCEPT !.callcred.wrapper = FALSE])
  /\ UNCHANGED <<wrappers, conns, dropped, hook, last>>
  /\ UNCHANGED <<buffers, server_creds>>

\* The holder whose decrement reached zero runs the destruct hook and frees
\* the credential.
Destruct(c) ==
  /\ c \in pending
  /\ SetHeap(DestructAndFree(Heap, c))
  /\ UNCHANGED <<wrappers, conns, dropped, hook, last>>
  /\ UNCHANGED <<buffers, server_creds>>

\* ------------------------------------------ core: security-connector hook
GRPC_SSL_TARGET_NAME_OVERRIDE_ARG == "grpc.ssl_target_name_override"
GRPC_ARG_HTTP2_SCHEME == "grpc.http2_scheme"
GRPC_SECURITY_OK == "GRPC_SECURITY_OK"
GRPC_SECURITY_ERROR == "GRPC_SECURITY_ERROR"

\* grpc_channel_args: <<>> is the null pointer, <<a>> points at the entries a.
\* An entry's value is the union's content written as text.
NullArgs == <<>>
Arg(key, type, value) == [key |-> key, type |-> type, value |-> value]

grpc_channel_arg_string_create(name, value) == Arg(name, "GRPC_ARG_STRING", value)

\* grpc_channel_args_copy_and_add: a new argument set holding the entries of
\* src (none when src is null) followed by the entries to add.
grpc_channel_args_copy_and_add(src, to_add) ==
  Ptr((IF src = NullArgs THEN <<>> ELSE src[1]) \o to_add)

\* Mutant: the scan finds no override.
ScanOverrideNever(args, i) == NullStr

\* Mutant: the scan takes the first entry with the key, whatever its type.
RECURSIVE ScanOverrideAnyType(_, _)
ScanOverrideAnyType(args, i) ==
  IF args = NullArgs \/ i > Len(args[1]) THEN NullStr
  ELSE IF args[1][i].key = GRPC_SSL_TARGET_NAME_OVERRIDE_ARG
       THEN Ptr(args[1][i].value)
       ELSE ScanOverrideAnyType(args, i + 1)

\* The scan loop of ssl_create_security_connector from entry i on.
RECURSIVE ScanOverride(_, _)
ScanOverride(args, i) ==
  IF args = NullArgs \/ i > Len(args[1]) THEN NullStr
  ELSE IF args[1][i].key = GRPC_SSL_TARGET_NAME_OVERRIDE_ARG
          /\ args[1][i].type = "GRPC_ARG_STRING"
       THEN Ptr(args[1][i].value)
       ELSE ScanOverride(args, i + 1)

\* The connector-creation collaborator: on GRPC_SECURITY_OK it hands out a
\* connector for the credential, on any other status none. handed: the names
\* it was called with.
grpc_ssl_channel_security_connector_create(c, call_creds, target, overridden_target_name, status) ==
  LET handed == [target |-> target, overridden_target_name |-> overridden_target_name]
  IN IF status = GRPC_SECURITY_OK
     THEN [status |-> status, handed |-> handed,
           sc |-> Ptr([creds |-> c, call_creds |-> call_creds, target |-> target,
                       overridden_target_name |-> overridden_target_name])]
     ELSE [status |-> status, handed |-> handed, sc |-> <<>>]

\* Mutant: the augmented arguments are built before the status is looked at.
ssl_create_security_connector_eager(c, call_creds, target, args, new_args, status) ==
  LET r == grpc_ssl_channel_security_connector_create(
             c, call_creds, target, ScanOverride(args, 1), status)
      new_arg == grpc_channel_arg_string_create(GRPC_ARG_HTTP2_SCHEME, "https")
  IN [status |-> r.status, sc |-> r.sc, handed |-> r.handed, args |-> args,
      new_args |-> grpc_channel_args_copy_and_add(args, <<new_arg>>)]

\* Mutant: the augmented arguments are built from nothing, not from args.
ssl_create_security_connector_fresh(c, call_creds, target, args, new_args, status) ==
  LET r == grpc_ssl_channel_security_connector_create(
             c, call_creds, target, ScanOverride(args, 1), status)
      new_arg == grpc_channel_arg_string_create(GRPC_ARG_HTTP2_SCHEME, "https")
  IN IF r.status # GRPC_SECURITY_OK
     THEN [status |-> r.status, sc |-> r.sc, handed |-> r.handed, args |-> args, new_args |-> new_args]
     ELSE [status |-> r.status, sc |-> r.sc, handed |-> r.handed, args |-> args,
           new_args |-> grpc_channel_args_copy_and_add(NullArgs, <<new_arg>>)]

\* ssl_create_security_connector: the status returned, the two outputs *sc and
\* *new_args (new_args is what the caller's variable held before) and the
\* caller's argument set as the call leaves it.
ssl_create_security_connector(c, call_creds, target, args, new_args, status) ==
  LET overridden_target_name == ScanOverride(args, 1)
      r == grpc_ssl_channel_security_connector_create(
             c, call_creds, target, overridden_target_name, status)
      new_arg == grpc_channel_arg_string_create(GRPC_ARG_HTTP2_SCHEME, "https")
  IN IF r.status # GRPC_SECURITY_OK
     THEN [status |-> r.status, sc |-> r.sc, handed |-> r.handed, args |-> args, new_args |-> new_args]
     ELSE [status |-> r.status, sc |-> r.sc, handed |-> r.handed, args |-> args,
           new_args |-> grpc_channel_args_copy_and_add(args, <<new_arg>>)]

\* The vtable's create_security_connector entry of credential c. A composite's
\* hook chains to its base credential's hook, adding its call credential.
RECURSIVE VtableCreateSecurityConnector(_, _, _, _, _, _, _)
VtableCreateSecurityConnector(H, c, call_creds, target, args, new_args, status) ==
  IF H.creds[c].kind = "composite"
  THEN VtableCreateSecurityConnector(H, H.creds[c].inner_creds, H.creds[c].call_creds,
                                     target, args, new_args, status)
  ELSE ssl_create_security_connector(c, call_creds, target, args, new_args, status)

\* The SSL credential at the base of credential c (NULL if the chain is broken).
RECURSIVE BaseOf(_, _)
BaseOf(H, c) ==
  IF c = NULL THEN NULL
  ELSE IF H.creds[c].kind = "ssl" THEN c
  ELSE IF H.creds[c].kind = "composite" THEN BaseOf(H, H.creds[c].inner_creds)
  ELSE NULL

\* The connector shares the credentials it was made from while it lives.
ConnectorRefs(H, sc) ==
  LET H1 == grpc_channel_credentials_ref(H, sc.creds)
  IN IF sc.call_creds # NULL THEN grpc_call_credentials_ref(H1) ELSE H1

ConnectorUnrefs(H, sc) ==
  LET H1 == grpc_channel_credentials_unref(H, sc.creds)
  IN IF sc.call_creds # NULL THEN grpc_call_credentials_unref(H1) ELSE H1

\* The transport makes a channel from the credential of wrapper w: the
\* credential's connector hook runs (status: what the collaborator reports).
CreateSecurityConnector(w, target, args, new_args, status) ==
  /\ FreeConn # NULL
  /\ wrappers[w].state = "live"
  /\ wrappers[w].wrapped_credentials # NULL
  /\ BaseOf(Heap, wrappers[w].wrapped_credentials) # NULL
  /\ LET c == wrappers[w].wrapped_credentials
         r == VtableCreateSecurityConnector(Heap, c, NULL, target, args, new_args, status)
     IN /\ hook' = [op |-> "create_security_connector", creds |-> c, target |-> target,
                    args_in |-> args, new_args_in |-> new_args, reported |-> status,
                    status |-> r.status, sc |-> r.sc, handed |-> r.handed,
                    args |-> r.args,
                    new_args |-> r.new_args]
        /\ IF r.sc # <<>>
           THEN /\ conns' = [conns EXCEPT ![FreeConn] =
                               [state |-> "live", sc |-> r.sc[1],
                                verify_options |->
                                  creds[r.sc[1].creds].config.verify_options,
                                invoking |-> FALSE, call |-> NoInvoke,
                                outcome |-> NoOutcome, result |-> -1]]
                /\ SetHeap(ConnectorRefs(Heap, r.sc[1]))
           ELSE UNCHANGED <<conns, creds, destructs, pending, mds, callcred, faults>>
        /\ UNCHANGED <<wrappers, dropped, last>>
  /\ UNCHANGED <<buffers, server_creds>>

\* The connector is destroyed once no handshake of it is running.
DestroySecurityConnector(k) ==
  /\ conns[k].state = "live"
  /\ ~conns[k].invoking
  /\ conns' = [conns EXCEPT ![k] = [state |-> "destroyed"]]
  /\ SetHeap(ConnectorUnrefs(Heap, conns[k].sc))
  /\ UNCHANGED <<wrappers, dropped, hook, last>>
  /\ UNCHANGED <<buffers, server_creds>>

\* --------------------------------------- binding: peer verification bridge
\* Mutant: an absent input is marshaled as the empty string.
MarshalArgEmpty(p) == IF p = NullStr THEN JsString(<<>>) ELSE JsString(CString(p[1]))

\* The arguments verify_peer_callback_wrapper builds for the callback.
MarshalArg(p) == IF p = NullStr THEN JsNull ELSE JsString(CString(p[1]))
Marshal(servername, cert) == <<MarshalArg(servername), MarshalArg(cert)>>

\* Nan::TryCatch::HasCaught after the callback has come back.
HasCaught(outcome) == outcome.threw

\* Mutant: a throwing callback is taken as an accept.
WrapperResultAccepts(outcome) == 0

\* Mutant: the value the callback returned decides, false rejecting the peer.
WrapperResultByValue(outcome) ==
  IF HasCaught(outcome) \/ outcome.value = JsBoolean(FALSE) THEN 1 ELSE 0

\* What verify_peer_callback_wrapper returns once the callback has come back.
WrapperResult(outcome) == IF HasCaught(outcome) THEN 1 ELSE 0

\* The verify options connector k reads through its pointer to the config.
ConnVerifyOptions(k) == conns[k].verify_options

\* A handshake of connector k calls the verify_peer_callback of its config:
\* verify_peer_callback_wrapper up to and including the call of the callback
\* (call: the inputs, the arguments built and the calls of the callback made).
InvokeBegin(k, servername, cert) ==
  /\ conns[k].state = "live"
  /\ ~conns[k].invoking
  /\ ConnVerifyOptions(k).verify_peer_callback # NullFn
  /\ LET md == ConnVerifyOptions(k).verify_peer_callback_userdata
     IN /\ faults' = IF mds[md].state = "live" THEN faults
                     ELSE faults \cup {"invoke on a deleted callback_md"}
        /\ conns' = [conns EXCEPT ![k].invoking = TRUE,
                                  ![k].call = [servername |-> servername, cert |-> cert,
                                               callback |-> IF mds[md].state = "live"
                                                            THEN mds[md].callback ELSE 0,
                                               argc |-> 2,
                                               argv |-> Marshal(servername, cert),
                                               calls |-> 1],
                                  ![k].outcome = NoOutcome,
                                  ![k].result = -1]
  /\ UNCHANGED <<creds, destructs, pending, wrappers, mds, callcred, dropped, hook, last>>
  /\ UNCHANGED <<buffers, server_creds>>

\* The callback comes back with its outcome and verify_peer_callback_wrapper
\* returns.
InvokeEnd(k, outcome) ==
  /\ conns[k].state = "live"
  /\ conns[k].invoking
  /\ conns' = [conns EXCEPT ![k].invoking = FALSE, ![k].call = NoInvoke,
                            ![k].outcome = outcome,
                            ![k].result = WrapperResult(outcome)]
  /\ UNCHANGED <<creds, destructs, pending, wrappers, mds, callcred, dropped, hook, faults, last>>
  /\ UNCHANGED <<buffers, server_creds>>

\* ------------------------------------------------------------ the inputs
MaxProps == 2

RootBuffer == JsBuffer(<<1>>, <<0>>)
KeyBuffer == JsBuffer(<<2>>, <<0>>)
CertBuffer == JsBuffer(<<3>>, <<0>>)
Prop(key, value) == [key |-> key, value |-> value]

\* Own properties an option bag may hold.
Props ==
  { Prop(JsString("checkServerIdentity"), JsFunction(1)),
    Prop(JsString("checkServerIdentity"), JsString("no")),
    Prop(JsString("insecureSkipHostnameVerify"), JsBoolean(TRUE)),
    Prop(JsString("insecureSkipHostnameVerify"), JsBoolean(FALSE)),
    Prop(JsString("insecureSkipHostnameVerify"), JsNumber),
    Prop(JsString("rejectUnauthorized"), JsBoolean(TRUE)),
    Prop(JsNumber, JsFunction(1)) }

\* Option bags: every enumeration order of up to MaxProps distinct keys.
Bags ==
  { JsObject(ps) : ps \in
      { q \in UNION { [1..n -> Props] : n \in 0..MaxProps } :
          \A i, j \in DOMAIN q : i # j => q[i].key # q[j].key } }

\* Every argument list of createSsl.
AllInfos ==
  { <<r, k, c>> : r \in {JsUndefined, RootBuffer, JsNumber},
                  k \in {JsNull, KeyBuffer, JsNumber},
                  c \in {JsUndefined, CertBuffer, JsString("pem")} }
  \cup
  { <<r, k, c, o>> : r \in {JsUndefined, RootBuffer},
                     k \in {JsNull, KeyBuffer},
                     c \in {JsUndefined, CertBuffer},
                     o \in Bags \cup {JsBoolean(TRUE)} }

Bag(ps) == JsObject(ps)
\* The argument lists the lifecycle is explored with: one of each way the
\* call can end (no bridge, a bridge, both options, each failure).
LifecycleInfos ==
  { <<JsUndefined, JsNull, JsUndefined>>,
    <<RootBuffer, KeyBuffer, JsUndefined>>,
    <<RootBuffer, KeyBuffer, CertBuffer,
      Bag(<<Prop(JsString("checkServerIdentity"), JsFunction(1))>>)>>,
    <<RootBuffer, KeyBuffer, CertBuffer,
      Bag(<<Prop(JsString("checkServerIdentity"), JsFunction(1)),
            Prop(JsString("insecureSkipHostnameVerify"), JsNumber)>>)>>,
    <<RootBuffer, KeyBuffer, CertBuffer,
      Bag(<<Prop(JsString("insecureSkipHostnameVerify"), JsNumber),
            Prop(JsString("checkServerIdentity"), JsFunction(1))>>)>> }

Targets == {"example.com"}
OverrideArg == Arg(GRPC_SSL_TARGET_NAME_OVERRIDE_ARG, "GRPC_ARG_STRING", "pinned.test")
StaleArgs == Ptr(<<Arg("stale", "GRPC_ARG_INTEGER", "int:7")>>)
LifecycleArgs == {NullArgs, Ptr(<<OverrideArg>>)}
Statuses == {GRPC_SECURITY_OK, GRPC_SECURITY_ERROR}
ServerNames == {NullStr, Ptr(<<5, 0>>)}
Certs == {Ptr(<<6, 0>>)}
LifecycleOutcomes == {Threw, Returns(JsUndefined)}

\* The objects a script can pass as this / as the argument of compose.
ThisValues == {JsChannelCredentials(w) : w \in {x \in WrapperIds : wrappers[x].state = "live"}}
                \cup {JsCallCredentials}
ArgValues == (IF callcred.wrapper THEN {JsCallCredentials} ELSE {}) \cup {JsUndefined}

\* ------------------------------------------------------- specifications
Init ==
  /\ creds = [c \in CredIds |-> NoCred]
  /\ destructs = [c \in CredIds |-> 0]
  /\ pending = {}
  /\ wrappers = [w \in WrapperIds |-> NoWrapper]
  /\ mds = [m \in MdIds |-> NoMd]
  /\ callcred = [refcount |-> 1, wrapper |-> TRUE]
  /\ conns = [k \in ConnIds |-> NoConn]
  /\ dropped = {}
  /\ hook = NoCall
  /\ faults = {}
  /\ last = [op |-> "none", tick |-> FALSE]
  /\ buffers = [b \in BufferIds |-> [state |-> "live", data |-> <<b>>, after |-> <<0>>]]
  /\ server_creds = [s \in ServerIds |-> NoServer]

Next ==
  \/ \E info \in LifecycleInfos, instance \in BOOLEAN : CreateSsl(info, instance)
  \/ \E instance \in BOOLEAN : CreateInsecure(instance)
  \/ \E this \in ThisValues, arg0 \in ArgValues, instance \in BOOLEAN :
       Compose(this, arg0, instance)
  \/ \E w \in WrapperIds : Collect(w)
  \/ CollectCallCredentials
  \/ \E c \in CredIds : Destruct(c)
  \/ \E w \in WrapperIds, target \in Targets, args \in LifecycleArgs, status \in Statuses :
       CreateSecurityConnector(w, target, args, NullArgs, status)
  \/ \E k \in ConnIds : DestroySecurityConnector(k)
  \/ \E k \in ConnIds, servername \in ServerNames, cert \in Certs :
       InvokeBegin(k, servername, cert)
  \/ \E k \in ConnIds, outcome \in LifecycleOutcomes : InvokeEnd(k, outcome)

Spec == Init /\ [][Next]_vars

\* One createSsl call, over every argument list, and what follows it.
NextCreate ==
  \/ \E info \in AllInfos, instance \in BOOLEAN :
       last.op = "none" /\ CreateSsl(info, instance)
  \/ \E w \in WrapperIds : Collect(w)
  \/ \E c \in CredIds : Destruct(c)

SpecCreate == Init /\ [][NextCreate]_vars

\* Own properties of option bags, with keys that differ from a recognised
\* key only after a NUL character.
OptionProps ==
  Props \cup
  { Prop(JsStringNul("checkServerIdentity", "x"), JsNumber),
    Prop(JsStringNul("insecureSkipHostnameVerify", "x"), JsBoolean(TRUE)) }

OptionBags ==
  { JsObject(ps) : ps \in
      { q \in UNION { [1..n -> OptionProps] : n \in 0..MaxProps } :
          \A i, j \in DOMAIN q : i # j => q[i].key # q[j].key } }

OptionInfos ==
  { <<r, k, c, o>> : r \in {JsUndefined, RootBuffer}, k \in {JsNull, KeyBuffer},
                     c \in {JsUndefined, CertBuffer}, o \in OptionBags }

\* One createSsl call over every option bag, and what follows it.
NextOptions ==
  \/ \E info \in OptionInfos, instance \in BOOLEAN :
       last.op = "none" /\ CreateSsl(info, instance)
  \/ \E w \in WrapperIds : Collect(w)
  \/ \E c \in CredIds : Destruct(c)

SpecOptions == Init /\ [][NextOptions]_vars

\* The Buffer object over the caller's buffer b, as it is now.
JsBufferAt(b) ==
  [t |-> "buffer", data |-> buffers[b].data, after |-> buffers[b].after, at |-> b]

\* Contents the caller may write into a Buffer, and what may follow a Buffer
\* in memory (a Buffer carries no terminator of its own).
BufferBytes == {<<4>>, <<4, 0, 5>>}
MemoryAfter == {<<0>>, <<9, 0>>}

\* The argument lists made of the caller's live Buffers.
BufferInfos ==
  { <<r, kc[1], kc[2]>> :
      r \in {JsUndefined} \cup {JsBufferAt(b) : b \in {x \in {1} : buffers[x].state = "live"}},
      kc \in {<<JsNull, JsUndefined>>} \cup
             { <<JsBufferAt(2), JsBufferAt(3)>> : x \in
                 {y \in {1} : buffers[2].state = "live" /\ buffers[3].state = "live"} } }

\* The caller overwrites Buffer b (the memory after it is what it happens
\* to be).
MutateBuffer(b, data, after) ==
  /\ buffers[b].state = "live"
  /\ buffers' = [buffers EXCEPT ![b] = [state |-> "live", data |-> data, after |-> after]]
  /\ UNCHANGED <<creds, destructs, pending, wrappers, mds, callcred, conns, dropped, hook,
                 faults, last, server_creds>>

\* The caller drops Buffer b and its memory is freed.
FreeBuffer(b) ==
  /\ buffers[b].state = "live"
  /\ buffers' = [buffers EXCEPT ![b] = [state |-> "freed"]]
  /\ UNCHANGED <<creds, destructs, pending, wrappers, mds, callcred, conns, dropped, hook,
                 faults, last, server_creds>>

\* One createSsl call on the caller's Buffers, which the caller overwrites
\* and frees before and after it.
NextBuffers ==
  \/ \E info \in BufferInfos, instance \in BOOLEAN :
       last.op = "none" /\ CreateSsl(info, instance)
  \/ \E b \in BufferIds, data \in BufferBytes, after \in MemoryAfter :
       MutateBuffer(b, data, after)
  \/ \E b \in BufferIds : FreeBuffer(b)
  \/ \E w \in WrapperIds : Collect(w)
  \/ \E c \in CredIds : Destruct(c)

SpecBuffers == Init /\ [][NextBuffers]_vars

\* ------------------------------------------ SSL server credentials: calls
FreeServer == FreeOf(ServerIds, [x \in ServerIds |-> server_creds[x].kind # "none"])

\* The record of a server credential: what the constructor returned and the
\* arguments it was called with.
ServerMade(r, pem_root_certs, pem_key_cert_pairs, num_key_cert_pairs) ==
  [kind |-> r.kind,
   refcount |-> IF r.kind = "abort" THEN 0 ELSE r.refcount,
   config |-> IF r.kind = "abort" THEN ZeroServerConfig ELSE r.config,
   call |-> [pem_root_certs |-> pem_root_certs, pem_key_cert_pairs |-> pem_key_cert_pairs,
             num_key_cert_pairs |-> num_key_cert_pairs]]

ServerFrame ==
  UNCHANGED <<creds, destructs, pending, wrappers, mds, callcred, conns, dropped, hook,
              faults, last, buffers>>

\* A caller constructs a server credential with grpc_ssl_server_credentials_create.
ServerCredentialsCreate(pem_root_certs, pem_key_cert_pairs, num_key_cert_pairs, force_client_auth) ==
  /\ FreeServer # NULL
  /\ server_creds' = [server_creds EXCEPT ![FreeServer] =
        ServerMade(grpc_ssl_server_credentials_create(
                     pem_root_certs, pem_key_cert_pairs, num_key_cert_pairs, force_client_auth),
                   pem_root_certs, pem_key_cert_pairs, num_key_cert_pairs)]
  /\ ServerFrame

\* A caller constructs a server credential with grpc_ssl_server_credentials_create_ex.
ServerCredentialsCreateEx(pem_root_certs, pem_key_cert_pairs, num_key_cert_pairs, client_certificate_request) ==
  /\ FreeServer # NULL
  /\ server_creds' = [server_creds EXCEPT ![FreeServer] =
        ServerMade(grpc_ssl_server_credentials_create_ex(
                     pem_root_certs, pem_key_cert_pairs, num_key_cert_pairs,
                     client_certificate_request),
                   pem_root_certs, pem_key_cert_pairs, num_key_cert_pairs)]
  /\ ServerFrame

\* The owner releases the server credential: its count reaches zero and the
\* vtable's destruct hook, ssl_server_destruct, runs.
ServerCredentialsRelease(x) ==
  /\ server_creds[x].kind = "ssl_server"
  /\ server_creds' = [server_creds EXCEPT ![x] = ssl_server_destruct(server_creds[x])]
  /\ ServerFrame

\* The (private_key, cert_chain) pairs a caller may supply: complete ones, one
\* whose strings are followed by other bytes, and half-populated ones.
PairEntries ==
  { [private_key |-> Ptr(<<2, 0>>), cert_chain |-> Ptr(<<3, 0>>)],
    [private_key |-> Ptr(<<4, 0, 8>>), cert_chain |-> Ptr(<<5, 0>>)],
    [private_key |-> NullStr, cert_chain |-> Ptr(<<3, 0>>)],
    [private_key |-> Ptr(<<2, 0>>), cert_chain |-> NullStr] }
PairArrays ==
  {<<>>} \cup {Ptr(q) : q \in UNION { [1..n -> PairEntries] : n \in 0..MaxPairs }}
\* A count with an array that holds at least that many pairs, or no array.
PairInputs ==
  { <<a, n>> \in PairArrays \X (0..MaxPairs) : a = <<>> \/ n <= Len(a[1]) }
ServerRoots == {NullStr, Ptr(<<1, 0>>)}
ClientCertificateRequests ==
  { GRPC_SSL_DONT_REQUEST_CLIENT_CERTIFICATE,
    "GRPC_SSL_REQUEST_CLIENT_CERTIFICATE_AND_VERIFY",
    GRPC_SSL_REQUEST_AND_REQUIRE_CLIENT_CERTIFICATE_AND_VERIFY }

NextServer ==
  \/ \E root \in ServerRoots, in \in PairInputs, force_client_auth \in {0, 1} :
       ServerCredentialsCreate(root, in[1], in[2], force_client_auth)
  \/ \E root \in ServerRoots, in \in PairInputs, request \in ClientCertificateRequests :
       ServerCredentialsCreateEx(root, in[1], in[2], request)
  \/ \E x \in ServerIds : ServerCredentialsRelease(x)

SpecServer == Init /\ [][NextServer]_vars

MaxArgs == 2

\* Entries a channel argument set may hold.
ArgEntries ==
  { OverrideArg,
    Arg(GRPC_SSL_TARGET_NAME_OVERRIDE_ARG, "GRPC_ARG_STRING", "other.test"),
    Arg(GRPC_SSL_TARGET_NAME_OVERRIDE_ARG, "GRPC_ARG_INTEGER", "int:1"),
    Arg(GRPC_ARG_HTTP2_SCHEME, "GRPC_ARG_STRING", "http"),
    Arg("grpc.primary_user_agent", "GRPC_ARG_STRING", "ua") }

\* Every channel argument set: absent, or up to MaxArgs entries in any order.
AllArgs ==
  {NullArgs} \cup {Ptr(q) : q \in UNION { [1..n -> ArgEntries] : n \in 0..MaxArgs }}

\* One connector creation, over every channel argument set, on an SSL
\* credential and on composites of it.
NextConn ==
  \/ \E instance \in BOOLEAN :
       last.op = "none" /\ CreateSsl(<<RootBuffer, KeyBuffer, CertBuffer>>, instance)
  \/ \E this \in ThisValues, instance \in BOOLEAN : Compose(this, JsCallCredentials, instance)
  \/ \E w \in WrapperIds, target \in Targets, args \in AllArgs,
        new_args \in {NullArgs, StaleArgs}, status \in Statuses :
       hook.op = "none" /\ CreateSecurityConnector(w, target, args, new_args, status)
  \/ \E k \in ConnIds : DestroySecurityConnector(k)

SpecConn == Init /\ [][NextConn]_vars

\* The inputs a handshake may pass to the bridge: absent, empty, a name, and
\* a name followed by other bytes in memory.
AllServerNames == {NullStr, Ptr(<<0>>), Ptr(<<5, 0>>), Ptr(<<5, 0, 7>>)}
AllCerts == {NullStr, Ptr(<<0>>), Ptr(<<6, 0>>)}
\* What a checkServerIdentity function may do.
AllOutcomes ==
  {Threw} \cup {Returns(v) : v \in {JsUndefined, JsNull, JsBoolean(FALSE), JsBoolean(TRUE),
                                    JsObject(<<Prop(JsString("message"), JsString("bad"))>>)}}
CheckedInfos ==
  { <<RootBuffer, KeyBuffer, CertBuffer,
      Bag(<<Prop(JsString("checkServerIdentity"), JsFunction(1))>>)>>,
    <<JsUndefined, JsNull, JsUndefined,
      Bag(<<Prop(JsString("insecureSkipHostnameVerify"), JsBoolean(TRUE)),
            Prop(JsString("checkServerIdentity"), JsFunction(1))>>)>> }

\* A credential with a checkServerIdentity function, a connector made from
\* it, and handshakes over every input and every behaviour of the function.
NextInvoke ==
  \/ \E info \in CheckedInfos, instance \in BOOLEAN :
       last.op = "none" /\ CreateSsl(info, instance)
  \/ \E w \in WrapperIds, target \in Targets, args \in LifecycleArgs, status \in Statuses :
       hook.op = "none" /\ CreateSecurityConnector(w, target, args, NullArgs, status)
  \/ \E k \in ConnIds, servername \in AllServerNames, cert \in AllCerts :
       InvokeBegin(k, servername, cert)
  \/ \E k \in ConnIds, outcome \in AllOutcomes : InvokeEnd(k, outcome)
  \/ \E k \in ConnIds : DestroySecurityConnector(k)
  \/ \E w \in WrapperIds : Collect(w)
  \/ \E c \in CredIds : Destruct(c)

SpecInvoke == Init /\ [][NextInvoke]_vars

\* =============================================================== claims
\* The failures the binding reports for malformed createSsl arguments.
InvalidArgumentErrors == {ErrRoot, ErrKey, ErrCert, ErrPair, ErrCheck, ErrSkip}

\* The SSL credentials whose config refers to callback_md m.
OwnersOf(m) ==
  {c \in CredIds : /\ creds[c].kind = "ssl"
                   /\ creds[c].config.verify_options.verify_peer_callback_userdata = m}

\* Who holds a reference to credential c: wrappers, composites, connectors.
WrapperHolders(c) ==
  {w \in WrapperIds : wrappers[w].state = "live" /\ wrappers[w].wrapped_credentials = c}
CompositeHolders(c) ==
  {d \in CredIds : creds[d].kind = "composite" /\ creds[d].inner_creds = c}
ConnHolders(c) ==
  {k \in ConnIds : conns[k].state = "live" /\ conns[k].sc.creds = c}
NHolders(c) ==
  Cardinality(WrapperHolders(c)) + Cardinality(CompositeHolders(c))
    + Cardinality(ConnHolders(c))

\* Credential c can still be released by somebody: it is held by a wrapper or
\* a connector, or by a composite that can, or its destruct is under way.
RECURSIVE Releasable(_)
Releasable(c) ==
  \/ c \in pending
  \/ WrapperHolders(c) # {}
  \/ ConnHolders(c) # {}
  \/ \E d \in CompositeHolders(c) : Releasable(d)

\* The lifecycle of bridge m is over: no config that anybody can still release
\* owns it.
LifecycleOver(m) == \A c \in OwnersOf(m) : ~Releasable(c)

\* C1: every bridge (callback_md) createSsl allocated is torn down exactly once
\* over its whole lifecycle, whichever path ends it: never twice, and once the
\* lifecycle is over (the owning credential destroyed, or createSsl failed or
\* returned without a wrapper) not zero times.
C1_TeardownExactlyOnce ==
  \A m \in MdIds :
    mds[m].state # "none" =>
      /\ mds[m].teardowns <= 1
      /\ LifecycleOver(m) => mds[m].teardowns = 1

\* C2: after a createSsl call that failed with an InvalidArgument-class error,
\* nothing the call allocated remains: no native credential (and so no config
\* buffer) and no live callback_md.
C2_NoPartialState ==
  (last.op = "createSsl" /\ last.ret = "throw" /\ last.throw \in InvalidArgumentErrors) =>
    /\ last.creds = NULL
    /\ \A m \in last.alloc : mds[m].state # "live"

Present(v) == BufferHasInstance(v)
Absent(v) == IsNullOrUndefined(v)
\* An option bag none of whose recognised keys has a value of the wrong type.
BagValid(info) ==
  Len(info) < 4 \/
  \A i \in DOMAIN OwnProps(info[4]) :
    LET p == OwnProps(info[4])[i]
    IN /\ p.key = JsString("checkServerIdentity") => IsFunction(p.value)
       /\ p.key = JsString("insecureSkipHostnameVerify") => IsBoolean(p.value)
RootValid(info) == Present(info[1]) \/ Absent(info[1])
\* The owned C string made of a buffer that is followed by a NUL.
CopyOf(v) == Ptr(v.data \o <<0>>)

\* C3: createSsl with exactly one of key and cert present throws an
\* InvalidArgument error (the pair error when the root argument is well typed)
\* having allocated neither a credential nor anything else; with both absent
\* and the other arguments valid it builds a config without a pair, with both
\* present a config holding copies of both; and every SSL config that exists
\* has its pair absent or complete.
C3_KeyCertPair ==
  /\ last.op = "createSsl" =>
       LET info == last.args
       IN /\ ((Present(info[2]) /\ Absent(info[3])) \/ (Absent(info[2]) /\ Present(info[3]))) =>
               /\ last.ret = "throw"
               /\ last.throw \in InvalidArgumentErrors
               /\ RootValid(info) => last.throw = ErrPair
               /\ last.creds = NULL
               /\ last.alloc = {}
          /\ (Absent(info[2]) /\ Absent(info[3]) /\ RootValid(info) /\ BagValid(info)) =>
               /\ last.ret \in {"object", "null"}
               /\ last.creds # NULL
               /\ creds[last.creds].kind = "ssl" =>
                    creds[last.creds].config.pem_key_cert_pair = <<>>
          /\ (Present(info[2]) /\ Present(info[3]) /\ RootValid(info) /\ BagValid(info)) =>
               /\ last.ret \in {"object", "null"}
               /\ last.creds # NULL
               /\ creds[last.creds].kind = "ssl" =>
                    creds[last.creds].config.pem_key_cert_pair =
                      Ptr([cert_chain |-> CopyOf(info[3]), private_key |-> CopyOf(info[2])])
  /\ \A c \in CredIds :
       (creds[c].kind = "ssl" /\ creds[c].config.pem_key_cert_pair # <<>>) =>
          /\ creds[c].config.pem_key_cert_pair[1].private_key # NullStr
          /\ creds[c].config.pem_key_cert_pair[1].cert_chain # NullStr
  /\ "GPR_ASSERT failed" \notin faults

\* C3's case: a call with a key and no cert has thrown the pair error.
C3_Witness ==
  /\ last.op = "createSsl"
  /\ Present(last.args[2]) /\ Absent(last.args[3])
  /\ last.throw = ErrPair

\* A compose call on an insecure wrapper with a CallCredentials argument.
ComposeOnInsecure(call) ==
  /\ call.op = "compose"
  /\ ChannelCredentialsHasInstance(call.args[1])
  /\ wrappers[call.args[1].w].wrapped_credentials = NULL
  /\ CallCredentialsHasInstance(call.args[2])

\* C4: compose on an insecure credential with a valid call credential throws
\* "Cannot compose insecure credential" and changes nothing: no credential or
\* wrapper is created and no refcount moves.
C4_ComposeInsecure ==
  [][(last' # last /\ ComposeOnInsecure(last')) =>
       /\ last'.ret = "throw"
       /\ last'.throw = ErrInsecure
       /\ UNCHANGED <<creds, destructs, pending, wrappers, mds, callcred, conns, dropped>>]_vars

\* C4's case: such a call has been made and has thrown.
C4_Witness == ComposeOnInsecure(last) /\ last.ret = "throw"

\* A compose call on a wrapper of a live SSL credential with a CallCredentials
\* argument (read in the state the call starts from).
ComposeOnSsl(call) ==
  /\ call.op = "compose"
  /\ ChannelCredentialsHasInstance(call.args[1])
  /\ CallCredentialsHasInstance(call.args[2])
  /\ wrappers[call.args[1].w].wrapped_credentials # NULL
  /\ creds[wrappers[call.args[1].w].wrapped_credentials].kind = "ssl"

\* What every such call does: a new composite of the base and the call
\* credential, with each input's refcount up by one and the base wrapper as it was.
ComposeShares(call) ==
  LET b == wrappers[call.args[1].w].wrapped_credentials
      c == call.creds
  IN /\ c # NULL /\ c # b
     /\ creds[c].kind = "none"
     /\ creds'[c] = [kind |-> "composite", refcount |-> 1, inner_creds |-> b, call_creds |-> 1]
     /\ creds'[b] = [creds[b] EXCEPT !.refcount = @ + 1]
     /\ callcred' = [callcred EXCEPT !.refcount = @ + 1]
     /\ wrappers'[call.args[1].w] = wrappers[call.args[1].w]
     /\ \A d \in CredIds \ {b, c} : creds'[d] = creds[d]

\* The call returned a new wrapper, distinct from its operands, of the composite.
ComposeReturnsWrapper(call) ==
  /\ call.ret = "object"
  /\ call.wrapper # NULL /\ call.wrapper # call.args[1].w
  /\ wrappers[call.wrapper].state = "none"
  /\ wrappers'[call.wrapper] = [state |-> "live", wrapped_credentials |-> call.creds]

RefFaults ==
  {"ref of a dead credential", "unref of a dead credential",
   "ref of a dead call credential", "unref of a dead call credential",
   "teardown of a deleted callback_md", "teardown of a null callback_md"}

\* Every credential handed out has been released by every holder.
AllReleased ==
  /\ dropped = {}
  /\ \A w \in WrapperIds : wrappers[w].state # "live"
  /\ \A k \in ConnIds : conns[k].state # "live"
  /\ pending = {}

\* C6: once every wrapper returned by createSsl and compose has been released
\* (in any order), no reference is outstanding: every credential created has
\* been destroyed, exactly once, and the call credential is back to the one
\* reference of its own wrapper; and at no time is a credential destroyed twice
\* or touched after its refcount reached zero.
C6_RefcountRoundTrip ==
  /\ \A c \in CredIds : destructs[c] <= 1
  /\ faults \cap RefFaults = {}
  /\ AllReleased =>
       /\ \A c \in CredIds :
            creds[c].kind # "none" => creds[c].kind = "freed" /\ destructs[c] = 1
       /\ callcred.refcount = IF callcred.wrapper THEN 1 ELSE 0

\* C6's case with N = 2: an SSL credential and two composites of it, all
\* released and destroyed.
C6_Witness ==
  /\ AllReleased
  /\ Cardinality({c \in CredIds : creds[c].kind = "freed" /\ creds[c].was = "ssl"}) = 1
  /\ Cardinality({c \in CredIds : creds[c].kind = "freed" /\ creds[c].was = "composite"}) = 2
  /\ \A w \in WrapperIds : wrappers[w].state = "dead"

LiveKind(c) == creds[c].kind \in {"ssl", "composite"}

\* C7: a credential starts with refcount 1; its destruct hook runs only when
\* the count is zero and nobody holds it, and at most once; and as long as a
\* wrapper, a composite or a connector holds a reference the credential (with
\* its config buffers) is intact, its count positive and no destruct under way.
C7_DestructAfterLastRelease ==
  [][\A c \in CredIds :
       /\ (creds[c].kind = "none" /\ creds'[c].kind # "none") => creds'[c].refcount = 1
       /\ destructs'[c] # destructs[c] =>
            /\ destructs[c] = 0 /\ destructs'[c] = 1
            /\ LiveKind(c) /\ creds[c].refcount = 0
            /\ NHolders(c) = 0
       /\ (creds[c].kind = "ssl" /\ creds'[c].kind = "ssl"
             /\ creds'[c].config # creds[c].config) => FALSE
       /\ NHolders(c)' > 0 =>
            /\ LiveKind(c)'
            /\ creds'[c].refcount = NHolders(c)' + (IF c \in dropped' THEN 1 ELSE 0)
            /\ c \notin pending'
            /\ destructs'[c] = 0]_vars

\* C7's case: an SSL credential held by a wrapper, a composite and a connector
\* at once while another credential's destruct has already run.
C7_Witness ==
  \E c, d \in CredIds :
    /\ creds[c].kind = "ssl"
    /\ WrapperHolders(c) # {} /\ CompositeHolders(c) # {} /\ ConnHolders(c) # {}
    /\ creds[c].refcount = 3
    /\ destructs[d] = 1

C9_FailurePropagates ==
  (hook.op # "none" /\ hook.reported # GRPC_SECURITY_OK) =>
    /\ hook.status = hook.reported
    /\ hook.sc = <<>>
    /\ hook.new_args = hook.new_args_in
    /\ hook.args = hook.args_in

\* C9's case: a failed call whose caller held a stale argument set.
C9_Witness ==
  /\ hook.op # "none"
  /\ hook.reported = GRPC_SECURITY_ERROR
  /\ hook.new_args_in = StaleArgs
  /\ hook.args_in # NullArgs

Entries(args) == IF args = NullArgs THEN <<>> ELSE args[1]

\* C10: on success *new_args holds every entry of the input set, in order,
\* followed by one scheme entry with value "https"; the input set is as it was.
C10_ArgsAugmented ==
  (hook.op # "none" /\ hook.status = GRPC_SECURITY_OK) =>
    LET in == Entries(hook.args_in)
    IN /\ hook.new_args # NullArgs
       /\ Len(hook.new_args[1]) = Len(in) + 1
       /\ \A i \in 1..Len(in) : hook.new_args[1][i] = in[i]
       /\ hook.new_args[1][Len(in) + 1] =
            [key |-> "grpc.http2_scheme", type |-> "GRPC_ARG_STRING", value |-> "https"]
       /\ hook.args = hook.args_in
       /\ hook.sc # <<>>

\* C10's case: a successful call whose input set already held a scheme entry
\* and another entry.
C10_Witness ==
  /\ hook.op # "none" /\ hook.status = GRPC_SECURITY_OK
  /\ hook.args_in = Ptr(<<Arg(GRPC_ARG_HTTP2_SCHEME, "GRPC_ARG_STRING", "http"), OverrideArg>>)
  /\ Len(hook.new_args[1]) = 3

\* The positions of the entries of args with the override key, and of those
\* among them that are string-typed.
KeyEntries(args) ==
  {i \in 1..Len(Entries(args)) : Entries(args)[i].key = "grpc.ssl_target_name_override"}
StringKeyEntries(args) ==
  {i \in KeyEntries(args) : Entries(args)[i].type = "GRPC_ARG_STRING"}

\* C11: the hook always hands the dial target to the collaborator; when the
\* argument set holds a (string) override entry the collaborator also gets the
\* value of such an entry as the name to match, and when the set is absent or
\* holds no entry with the override key it gets no override. A connector
\* handed out carries exactly the names the collaborator was given.
C11_TargetOverride ==
  hook.op # "none" =>
    /\ hook.handed.target = hook.target
    /\ StringKeyEntries(hook.args_in) # {} =>
         \E i \in StringKeyEntries(hook.args_in) :
           hook.handed.overridden_target_name = <<Entries(hook.args_in)[i].value>>
    /\ KeyEntries(hook.args_in) = {} => hook.handed.overridden_target_name = <<>>
    /\ hook.sc # <<>> =>
         /\ hook.sc[1].target = hook.target
         /\ hook.sc[1].overridden_target_name = hook.handed.overridden_target_name

\* C11's case: the override entry follows an unrelated entry and its value
\* reached the collaborator.
C11_Witness ==
  /\ hook.op # "none"
  /\ hook.args_in = Ptr(<<Arg("grpc.primary_user_agent", "GRPC_ARG_STRING", "ua"), OverrideArg>>)
  /\ hook.handed = [target |-> "example.com", overridden_target_name |-> <<"pinned.test">>]

\* The connectors on which a call of the bridge has returned.
Returned0(k) ==
  conns[k].state = "live" /\ ~conns[k].invoking /\ conns[k].outcome # NoOutcome

\* C12: whatever the wrapped function does, the handshake gets 0 or 1 back
\* from the bridge, and 1 (reject) whenever the function threw; while the
\* function runs nothing has been returned.
C12_FailureNeverEscapes ==
  \A k \in ConnIds :
    /\ Returned0(k) =>
         /\ conns[k].result \in {0, 1}
         /\ conns[k].outcome.threw => conns[k].result # 0
    /\ (conns[k].state = "live" /\ conns[k].invoking) => conns[k].result = -1

\* C12's case: the function threw and the bridge returned.
C12_Witness ==
  \E k \in ConnIds : Returned0(k) /\ conns[k].outcome = Threw /\ conns[k].result = 1

\* The text of a present C string: its bytes before the terminator.
TextOf(p) ==
  LET m == p[1]
      nul == CHOOSE i \in 1..Len(m) : m[i] = 0 /\ \A j \in 1..(i - 1) : m[j] # 0
  IN SubSeq(m, 1, nul - 1)

\* What the wrapped function must receive for input p: the absent marker for
\* a null pointer, a string with the input's text otherwise.
Expected(p) == IF p = <<>> THEN [t |-> "null"] ELSE [t |-> "string", s |-> TextOf(p)]

\* C13: while a call of the bridge runs, the function stored at createSsl has
\* been called once, with two arguments: first the server name, then the
\* certificate, each the absent marker if and only if its input is null and
\* otherwise a string with the input's exact text.
C13_MarshalTwoArgs ==
  \A k \in ConnIds :
    (conns[k].state = "live" /\ conns[k].invoking) =>
      LET call == conns[k].call
      IN /\ call.calls = 1
         /\ call.callback = 1
         /\ call.argc = 2 /\ Len(call.argv) = 2
         /\ call.argv[1] = Expected(call.servername)
         /\ call.argv[2] = Expected(call.cert)
         /\ (call.argv[1].t = "null") <=> (call.servername = <<>>)
         /\ (call.argv[2].t = "null") <=> (call.cert = <<>>)

\* C13's case: an absent server name and an empty certificate.
C13_Witness ==
  \E k \in ConnIds :
    /\ conns[k].state = "live" /\ conns[k].invoking
    /\ conns[k].call.servername = <<>> /\ conns[k].call.cert = <<(<<0>>)>>
    /\ conns[k].call.argv = <<[t |-> "null"], [t |-> "string", s |-> <<>>]>>

\* C17: when the wrapped function returns normally the bridge returns 0
\* (accept), whatever value the function returned; it returns nonzero only
\* when the function threw.
C17_RejectOnlyByThrowing ==
  \A k \in ConnIds :
    Returned0(k) =>
      /\ ~conns[k].outcome.threw => conns[k].result = 0
      /\ conns[k].result # 0 => conns[k].outcome.threw

\* C17's case: the function returned false and the peer was accepted.
C17_Witness ==
  \E k \in ConnIds :
    /\ Returned0(k)
    /\ conns[k].outcome = [threw |-> FALSE, value |-> [t |-> "boolean", b |-> FALSE]]
    /\ conns[k].result = 0

\* The keys createSsl's option bag recognises.
Recognised(key) ==
  key = [t |-> "string", s |-> "checkServerIdentity"] \/
  key = [t |-> "string", s |-> "insecureSkipHostnameVerify"]

\* The argument list info with the unrecognised keys of its option bag removed.
WithoutUnrecognised(info) ==
  [info EXCEPT ![4] = [@ EXCEPT !.props = SelectSeq(@, LAMBDA p : Recognised(p.key))]]

\* C14: a createSsl call with an option bag ends as the call with the same
\* bag without its unrecognised keys does: the same error or none, and the
\* same config; in the config the bridge is attached exactly when a callable
\* checkServerIdentity is given and skip_hostname_verification is the value of
\* insecureSkipHostnameVerify (false without it), each stored whatever the
\* other is.
C14_UnrecognisedIgnored ==
  (last.op = "createSsl" /\ Len(last.args) = 4 /\ last.args[4].t = "object") =>
    LET base == IF last.alloc = {} THEN 1
                ELSE CHOOSE m \in last.alloc : \A n \in last.alloc : m <= n
        ref == CreateSslRun(WithoutUnrecognised(last.args), base)
        props == WithoutUnrecognised(last.args)[4].props
        fn == {i \in DOMAIN props : props[i].key.s = "checkServerIdentity"}
        skip == {i \in DOMAIN props : props[i].key.s = "insecureSkipHostnameVerify"}
    IN /\ (last.ret = "throw") <=> (ref.throw # "")
       /\ last.throw = ref.throw
       /\ (last.creds # NULL /\ creds[last.creds].kind = "ssl") =>
            LET vo == creds[last.creds].config.verify_options
            IN /\ creds[last.creds].config = ref.creds[1].config
               /\ (vo.verify_peer_callback # "NULL") <=> (fn # {})
               /\ vo.skip_hostname_verification =
                    (\E i \in skip : props[i].value.b)

\* What reading through a stored pointer gives: for a pointer into one of
\* the caller's buffers, that buffer's memory as it is now.
Deref(p) ==
  IF Len(p) = 2
  THEN IF buffers[p[2]].state = "live"
       THEN <<buffers[p[2]].data \o buffers[p[2]].after>>
       ELSE <<"freed">>
  ELSE p

\* The buffers of credential c's config as a reader finds them.
ConfigRead(c) ==
  LET config == creds[c].config
  IN [pem_root_certs |-> Deref(config.pem_root_certs),
      pem_key_cert_pair |->
        IF config.pem_key_cert_pair = <<>> THEN <<>>
        ELSE <<Deref(config.pem_key_cert_pair[1].private_key),
               Deref(config.pem_key_cert_pair[1].cert_chain)>>]

\* The owned copy of the C string found at the caller's buffer b.
CopyAt(b) == <<CString(buffers[b].data \o buffers[b].after) \o <<0>>>>

\* C15: a createSsl call stores copies of the C strings at the caller's
\* buffers; from then on no step (the caller overwriting or freeing its
\* buffers included) changes what the config's buffers hold or the config
\* itself, until the credential is destructed.
C15_ConfigBuffersCopied ==
  [][\A c \in CredIds :
       /\ (creds[c].kind = "ssl" /\ creds'[c].kind = "ssl") =>
            /\ ConfigRead(c)' = ConfigRead(c)
            /\ creds'[c].config = creds[c].config
       /\ (creds[c].kind = "none" /\ creds'[c].kind = "ssl") =>
            /\ last'.op = "createSsl"
            /\ ConfigRead(c)' =
                 [pem_root_certs |->
                    IF last'.args[1].t = "buffer" THEN CopyAt(1) ELSE <<>>,
                  pem_key_cert_pair |->
                    IF last'.args[2].t = "buffer" THEN <<CopyAt(2), CopyAt(3)>> ELSE <<>>]
    ]_vars

\* C15's case: a credential holds the copies made at construction while the
\* caller has freed the root buffer and overwritten the key buffer.
C15_Witness ==
  \E c \in CredIds :
    /\ creds[c].kind = "ssl"
    /\ creds[c].config.pem_root_certs = <<(<<1, 0>>)>>
    /\ creds[c].config.pem_key_cert_pair # <<>>
    /\ creds[c].config.pem_key_cert_pair[1].private_key = <<(<<2, 0>>)>>
    /\ buffers[1].state = "freed"
    /\ buffers[2].state = "live" /\ buffers[2].data = <<4>>

\* The owned copy of a present C string.
StrCopy(p) == <<TextOf(p) \o <<0>>>>

\* Whether construction with the first n pairs of the array must fail.
PairsUnusable(pairs, n) ==
  \/ n > 0 /\ pairs = <<>>
  \/ \E i \in 1..n : pairs # <<>> /\
        (pairs[1][i].private_key = <<>> \/ pairs[1][i].cert_chain = <<>>)

\* C16: a server credential construction with n pairs fails exactly when the
\* array is missing for n > 0 or one of the first n pairs lacks its private
\* key or its cert chain; otherwise the config has num_key_cert_pairs = n and
\* n stored pairs, each holding copies of both members of the input pair with
\* the same index, and no pair array for n = 0. No stored pair is
\* half-populated.
C16_ServerPairs ==
  \A x \in ServerIds :
    server_creds[x].kind \in {"abort", "ssl_server"} =>
      LET n == server_creds[x].call.num_key_cert_pairs
          pairs == server_creds[x].call.pem_key_cert_pairs
          config == server_creds[x].config
      IN /\ (server_creds[x].kind = "abort") <=> PairsUnusable(pairs, n)
         /\ server_creds[x].kind = "ssl_server" =>
              /\ config.num_key_cert_pairs = n
              /\ (n = 0) <=> (config.pem_key_cert_pairs = <<>>)
              /\ n > 0 =>
                   /\ Len(config.pem_key_cert_pairs[1]) = n
                   /\ \A i \in 1..n :
                        /\ config.pem_key_cert_pairs[1][i].private_key =
                             StrCopy(pairs[1][i].private_key)
                        /\ config.pem_key_cert_pairs[1][i].cert_chain =
                             StrCopy(pairs[1][i].cert_chain)
                        /\ config.pem_key_cert_pairs[1][i].private_key # <<>>
                        /\ config.pem_key_cert_pairs[1][i].cert_chain # <<>>

\* C16's case: two different complete pairs were supplied and stored in
\* order.
C16_Witness ==
  \E x \in ServerIds :
    /\ server_creds[x].kind = "ssl_server"
    /\ server_creds[x].call.num_key_cert_pairs = 2
    /\ server_creds[x].config.num_key_cert_pairs = 2
    /\ server_creds[x].config.pem_key_cert_pairs[1][1].private_key = <<(<<4, 0>>)>>
    /\ server_creds[x].config.pem_key_cert_pairs[1][2].private_key = <<(<<2, 0>>)>>

\* C18: every native credential createSsl or compose creates is handed to
\* one wrapper: a call that created a credential returned its wrapper, no
\* credential is left without a wrapper to release it, and no credential is
\* held by two wrappers.
C18_EveryCredentialWrapped ==
  /\ (last.op \in {"createSsl", "compose"} /\ last.creds # NULL) =>
       last.ret = "object" /\ last.wrapper # NULL
  /\ dropped = {}
  /\ \A c \in CredIds : Cardinality(WrapperHolders(c)) <= 1

\* C19: a wrapper returned by createInsecure holds no native credential; a
\* wrapper returned by createSsl or compose holds a live native credential
\* (and these calls return a wrapper, null or an error); a wrapper keeps what
\* it holds for as long as it lives; and every composite is built on a
\* native credential, never on none.
C19_InsecureOnlyFromCreateInsecure ==
  [][/\ (last' # last /\ last'.wrapper # NULL) =>
          /\ wrappers[last'.wrapper].state = "none"
          /\ wrappers'[last'.wrapper].state = "live"
          /\ last'.op = "createInsecure" =>
               wrappers'[last'.wrapper].wrapped_credentials = NULL
          /\ last'.op \in {"createSsl", "compose"} =>
               /\ wrappers'[last'.wrapper].wrapped_credentials # NULL
               /\ wrappers'[last'.wrapper].wrapped_credentials = last'.creds
               /\ creds'[last'.creds].kind \in {"ssl", "composite"}
               /\ last'.op = "compose" => creds'[last'.creds].kind = "composite"
     /\ last' # last =>
          /\ last'.ret \in {"object", "null", "throw"}
          /\ \A w \in WrapperIds :
               (wrappers[w].state = "none" /\ wrappers'[w].state = "live") =>
                 last'.wrapper = w
     /\ \A w \in WrapperIds :
          (wrappers[w].state = "live" /\ wrappers'[w].state = "live") =>
            wrappers'[w].wrapped_credentials = wrappers[w].wrapped_credentials
     /\ \A c \in CredIds :
          creds'[c].kind = "composite" =>
            /\ creds'[c].inner_creds # NULL
            /\ creds[c].kind = "none" => creds[creds'[c].inner_creds].kind \in {"ssl", "composite"}
    ]_vars

\* C19's case: compose has just returned a wrapper around a composite while
\* an insecure wrapper exists.
C19_Witness ==
  /\ last.op = "compose" /\ last.wrapper # NULL
  /\ wrappers[last.wrapper].state = "live"
  /\ wrappers[last.wrapper].wrapped_credentials # NULL
  /\ creds[wrappers[last.wrapper].wrapped_credentials].kind = "composite"
  /\ \E w \in WrapperIds : wrappers[w].state = "live" /\ wrappers[w].wrapped_credentials = NULL

\* C20: the override handed to the collaborator is the value of the first
\* entry, in argument order, that has the override key and is string-typed;
\* entries with the key and another type are passed over, later matching
\* entries are ignored, and without such an entry no override is handed over.
C20_FirstStringOverride ==
  hook.op # "none" =>
    LET in == Entries(hook.args_in)
        matching == StringKeyEntries(hook.args_in)
    IN IF matching = {}
       THEN hook.handed.overridden_target_name = <<>>
       ELSE LET first == CHOOSE i \in matching : \A j \in matching : i <= j
            IN hook.handed.overridden_target_name = <<in[first].value>>

\* C20's case: an entry with the key and an integer value comes before the
\* string-typed entry whose value was used.
C20_Witness ==
  /\ hook.op # "none"
  /\ hook.args_in =
       Ptr(<<Arg("grpc.ssl_target_name_override", "GRPC_ARG_INTEGER", "int:1"), OverrideArg>>)
  /\ hook.handed.overridden_target_name = <<"pinned.test">>

====
